---- MODULE Spec2Model ----
(***************************************************************************)
(* The Conan recipe conan/conanfile.py of aos_core_lib_cpp: the class      *)
(* AosCoreLibCpp with its two class attributes (settings, generators) and  *)
(* its two methods (requirements, configure), run by the package manager   *)
(* during one build invocation.                                            *)
(*                                                                         *)
(* Strings the recipe hands to the tool as references are modelled as      *)
(* sequences of one-character strings, so that splitting a reference into  *)
(* name and version is computed and not assumed.                           *)
(***************************************************************************)
EXTENDS Naturals, Sequences, FiniteSets, TLC

VARIABLES
    settings,         \* class attribute: the declared platform axes
    generators,       \* class attribute: the declared generators
    settings_values,  \* the value the invocation gives each declared axis
    requires,         \* the requirements declared so far, in declaration order
    options,          \* self.options: package -> (option name -> value)
    overrides,        \* the (package, option, value) settings the recipe applied
    built,            \* the packages built so far, with the options they were built with
    calls             \* the recipe methods / build steps the tool has run, in order

vars == <<settings, generators, settings_values, requires, options, overrides, built, calls>>

\* ---------------------------------------------------------------- bounds

\* How many times the tool may call configure() in one invocation.
MaxConfigure == 2

\* ---------------------------------------------------------------- helpers

Range(s) == {s[i] : i \in DOMAIN s}

Count(s, x) == Cardinality({i \in DOMAIN s : s[i] = x})

Digits == {"0", "1", "2", "3", "4", "5", "6", "7", "8", "9"}

\* ---------------------------------------------------------------- class attributes

\* settings = "os", "compiler", "build_type", "arch"
settings_mut_missing == <<"os", "compiler", "build_type">>
settings_decl == <<"os", "compiler", "build_type", "arch">>

\* generators = "CMakeToolchain", "CMakeDeps"
generators_mut_missing == <<"CMakeToolchain">>
generators_decl == <<"CMakeToolchain", "CMakeDeps">>

\* ---------------------------------------------------------------- requirements()

\* "gtest/1.14.0"
GtestRef_mut_dup == <<"o","p","e","n","s","s","l","/","1",".","1","4",".","0">>
GtestRef_mut_version == <<"g","t","e","s","t","/","1",".","1","4",".">>
GtestRef == <<"g","t","e","s","t","/","1",".","1","4",".","0">>

\* "openssl/3.2.1"
OpensslRef_mut_version == <<"o","p","e","n","s","s","l","/","3",".","2",".","0">>
OpensslRef_mut_other == <<"z","l","i","b","/","3",".","2",".","1">>
OpensslRef == <<"o","p","e","n","s","s","l","/","3",".","2",".","1">>

\* The position of the first "/" of a reference, 0 when it has none.
SlashAt(ref) ==
    IF \E i \in DOMAIN ref : ref[i] = "/"
    THEN CHOOSE i \in DOMAIN ref : ref[i] = "/" /\ \A j \in 1..(i - 1) : ref[j] # "/"
    ELSE 0

\* The requirement a reference "name/version" stands for.
ParseRef(ref) ==
    LET i == SlashAt(ref)
    IN  IF i = 0
        THEN [ref |-> ref, name |-> ref, version |-> <<>>]
        ELSE [ref |-> ref, name |-> SubSeq(ref, 1, i - 1),
              version |-> SubSeq(ref, i + 1, Len(ref))]

\* self.requires(ref): one more requirement, after those declared before.
self_requires_mut_overwrite(reqs, ref) == <<ParseRef(ref)>>
self_requires(reqs, ref) == Append(reqs, ParseRef(ref))

\* The body of requirements() with its two declarations in the given order.
RECURSIVE Declare(_, _)
Declare(reqs, refs) ==
    IF refs = <<>> THEN reqs
    ELSE Declare(self_requires(reqs, Head(refs)), Tail(refs))

\* def requirements(self): gtest first, then openssl.
requirements_body(reqs) == Declare(reqs, <<GtestRef, OpensslRef>>)

\* The same two declarations written in the other order.
requirements_swapped(reqs) == Declare(reqs, <<OpensslRef, GtestRef>>)

\* The requirement set of a requirement list: its (name, version) pairs.
ReqSet(reqs) == {<<reqs[i].name, reqs[i].version>> : i \in DOMAIN reqs}

ReqNames(reqs) == {reqs[i].name : i \in DOMAIN reqs}

\* ---------------------------------------------------------------- configure()

Openssl == <<"o","p","e","n","s","s","l">>
Gtest == <<"g","t","e","s","t">>

\* self.options[pkg].opt = val: the package's entry is created on first use,
\* the option is overwritten, every other option keeps its value.
SetOption(opts, pkg, opt, val) ==
    LET base == IF pkg \in DOMAIN opts THEN opts[pkg] ELSE [o \in {} |-> FALSE]
    IN  [q \in DOMAIN opts \cup {pkg} |->
            IF q = pkg
            THEN [o \in DOMAIN base \cup {opt} |-> IF o = opt THEN val ELSE base[o]]
            ELSE opts[q]]

\* def configure(self): the two assignments, in order.
configure_mut_shared_false(opts) ==
    SetOption(SetOption(opts, Openssl, "no_dso", FALSE), Openssl, "shared", FALSE)
configure_mut_clobber(opts) ==
    [q \in DOMAIN opts \cup {Openssl} |->
        IF q = Openssl THEN [no_dso |-> FALSE, shared |-> TRUE] ELSE opts[q]]
configure_mut_toggle(opts) ==
    LET shared == IF Openssl \in DOMAIN opts /\ "shared" \in DOMAIN opts[Openssl]
                  THEN ~opts[Openssl]["shared"] ELSE TRUE
    IN  SetOption(SetOption(opts, Openssl, "no_dso", FALSE), Openssl, "shared", shared)
configure_body(opts) ==
    SetOption(SetOption(opts, Openssl, "no_dso", FALSE), Openssl, "shared", TRUE)

\* The option settings that turn the options `before` into the options `after`,
\* as (package, option, value) triples: every option added or given a new value.
Overridden(before, after) ==
    {<<p, o, after[p][o]>> : <<p, o>> \in
        {po \in UNION {{<<q, n>> : n \in DOMAIN after[q]} : q \in DOMAIN after} :
            \/ po[1] \notin DOMAIN before
            \/ po[2] \notin DOMAIN before[po[1]]
            \/ before[po[1]][po[2]] # after[po[1]][po[2]]}}

\* ---------------------------------------------------------------- inputs

\* The options each dependency has, as far as the invocation may preset them.
OptionNames(pkg) ==
    IF pkg = Openssl THEN {"no_dso", "shared", "fPIC"} ELSE {"shared", "build_gmock"}

PkgOptionStates(pkg) == UNION {[S -> BOOLEAN] : S \in SUBSET OptionNames(pkg)}

\* Every prior option state: any subset of the dependencies, each with any
\* subset of its options preset to any value.
OptionStates ==
    UNION { {f \in [P -> UNION {PkgOptionStates(p) : p \in P}] :
                \A p \in P : f[p] \in PkgOptionStates(p)} :
            P \in SUBSET {Openssl, Gtest} }

\* The values an invocation may give a platform axis.
AxisValues(axis) ==
    IF axis = "os" THEN {"Linux", "Windows"}
    ELSE IF axis = "build_type" THEN {"Debug", "Release"}
    ELSE IF axis = "compiler" THEN {"gcc"}
    ELSE {"x86_64"}

\* The build settings of an invocation: one value per declared axis.
SettingsValues ==
    {f \in [Range(settings_decl) -> UNION {AxisValues(a) : a \in Range(settings_decl)}] :
        \A a \in Range(settings_decl) : f[a] \in AxisValues(a)}

\* ---------------------------------------------------------------- state machine

Required == Count(calls, "requirements") > 0
Configured == Count(calls, "configure") > 0

Init ==
    /\ settings = settings_decl
    /\ generators = generators_decl
    /\ settings_values \in SettingsValues
    /\ requires = <<>>
    /\ options \in OptionStates
    /\ overrides = {}
    /\ built = {}
    /\ calls = <<>>

\* The tool calls requirements(), once per invocation.
Requirements ==
    /\ ~Required
    /\ requires' = requirements_body(requires)
    /\ calls' = Append(calls, "requirements")
    /\ UNCHANGED <<settings, generators, settings_values, options, overrides, built>>

\* The tool calls configure().
Configure ==
    /\ Count(calls, "configure") < MaxConfigure
    /\ options' = configure_body(options)
    /\ overrides' = overrides \cup Overridden(options, configure_body(options))
    /\ calls' = Append(calls, "configure")
    /\ UNCHANGED <<settings, generators, settings_values, requires, built>>

\* The tool builds a required package with the options in force for it.
Build(pkg) ==
    /\ Required
    /\ Configured
    /\ pkg \in ReqNames(requires)
    /\ \A b \in built : b.name # pkg
    /\ built' = built \cup
         {[name |-> pkg,
           options |-> IF pkg \in DOMAIN options THEN options[pkg] ELSE [o \in {} |-> FALSE]]}
    /\ calls' = Append(calls, "build")
    /\ UNCHANGED <<settings, generators, settings_values, requires, options, overrides>>

BuildAny == \E pkg \in ReqNames(requires) : Build(pkg)

Next == Requirements \/ Configure \/ BuildAny

Spec == Init /\ [][Next]_vars

\* ---------------------------------------------------------------- properties

Calls(m) == Count(calls, m)

HasOption(opts, pkg, opt) == pkg \in DOMAIN opts /\ opt \in DOMAIN opts[pkg]

\* C1: after requirements() has run, before or after configure(), no two
\* requirements have the same package name; gtest and openssl each appear
\* exactly once, each with exactly one version.
C1_UniqueNames ==
    Required =>
        /\ \A i, j \in DOMAIN requires : requires[i].name = requires[j].name => i = j
        /\ \A n \in {Gtest, Openssl} :
              /\ Cardinality({i \in DOMAIN requires : requires[i].name = n}) = 1
              /\ Cardinality({pv \in ReqSet(requires) : pv[1] = n}) = 1

C1_Witness ==
    /\ Required
    /\ Len(requires) = 2
    /\ calls = <<"requirements", "configure">>

\* C2: every package whose options configure() has overridden is a package
\* that requirements() declares.
C2_OverridesOfRequired ==
    (Required /\ Configured) => \A t \in overrides : t[1] \in ReqNames(requires)

C2_Witness ==
    /\ Required
    /\ Configured
    /\ \E t \in overrides : t[1] = Openssl /\ t[2] = "shared"

\* C3: openssl is never built with option values other than no_dso = False
\* and shared = True: configure() has set both before openssl is built.
C3_BuiltAsConfigured ==
    \A b \in built :
        b.name = Openssl =>
            /\ Configured
            /\ "no_dso" \in DOMAIN b.options /\ b.options["no_dso"] = FALSE
            /\ "shared" \in DOMAIN b.options /\ b.options["shared"] = TRUE

C3_Witness ==
    /\ \E b \in built : b.name = Openssl
    /\ <<Openssl, "shared", TRUE>> \in overrides
    /\ <<Openssl, "no_dso", FALSE>> \in overrides

\* C4: after requirements() the requirement set is exactly
\* {(gtest, 1.14.0), (openssl, 3.2.1)}, whatever the build settings and the
\* option values are.
C4_ExactRequirements ==
    Required =>
        ReqSet(requires) =
            { <<(<<"g","t","e","s","t">>), (<<"1",".","1","4",".","0">>)>>,
              <<(<<"o","p","e","n","s","s","l">>), (<<"3",".","2",".","1">>)>> }

C4_Witness ==
    /\ Required
    /\ settings_values["os"] = "Windows"
    /\ settings_values["build_type"] = "Debug"
    /\ HasOption(options, Gtest, "build_gmock")
    /\ HasOption(options, Openssl, "fPIC")

\* A version identifier: dot-separated non-empty decimal numbers.
IsVersion(v) ==
    /\ Len(v) > 0
    /\ \A i \in DOMAIN v : v[i] \in Digits \cup {"."}
    /\ v[1] # "." /\ v[Len(v)] # "."
    /\ \A i \in 1..(Len(v) - 1) : ~(v[i] = "." /\ v[i + 1] = ".")

\* C5: every reference passed to requires() in requirements() has the form
\* name/version, with a non-empty name and a version made of dot-separated
\* non-empty decimal numbers.
C5_ValidReferences ==
    Required =>
        /\ Len(requires) = 2
        /\ \A i \in DOMAIN requires :
              LET r == requires[i]
              IN  /\ r.ref = r.name \o <<"/">> \o r.version
                  /\ Len(r.name) > 0
                  /\ \A k \in DOMAIN r.name : r.name[k] # "/"
                  /\ IsVersion(r.version)

C5_Witness ==
    /\ Required
    /\ \E i \in DOMAIN requires : requires[i].ref = GtestRef
    /\ \E i \in DOMAIN requires : requires[i].ref = OpensslRef

OpensslOverrides(opts) ==
    <<IF HasOption(opts, Openssl, "no_dso") THEN <<opts[Openssl]["no_dso"]>> ELSE <<>>,
      IF HasOption(opts, Openssl, "shared") THEN <<opts[Openssl]["shared"]>> ELSE <<>>>>

\* C7: no step of an invocation changes the declared settings or the
\* declared generators; once requirements() has run the requirement list
\* keeps its value, and once configure() has run the two openssl overrides
\* keep theirs.
C7_NotMutated ==
    [][ /\ settings' = settings
        /\ generators' = generators
        /\ (Required => requires' = requires)
        /\ (Configured => OpensslOverrides(options') = OpensslOverrides(options)) ]_vars

C7_Witness ==
    /\ Required
    /\ Calls("configure") = MaxConfigure
    /\ Cardinality(built) = 2
    /\ calls[Len(calls)] = "configure"

\* C8: settings is exactly (os, compiler, build_type, arch): the four
\* recognized axes, none missing, added or repeated.
C8_Settings ==
    /\ Len(settings) = 4
    /\ Range(settings) = {"os", "compiler", "build_type", "arch"}
    /\ settings = <<"os", "compiler", "build_type", "arch">>
    /\ DOMAIN settings_values = Range(settings)

C8_Witness ==
    /\ Required
    /\ Configured
    /\ Len(settings) = 4
    /\ built # {}

\* C9: generators is exactly (CMakeToolchain, CMakeDeps): a toolchain file
\* and a dependency-lookup file, and nothing else.
C9_Generators ==
    /\ Len(generators) = 2
    /\ generators = <<"CMakeToolchain", "CMakeDeps">>

C9_Witness ==
    /\ Required
    /\ Configured
    /\ Len(generators) = 2
    /\ built = {}

\* The step just taken is a call of configure().
ConfigureStep == calls' = Append(calls, "configure")

\* C10: from any prior option state one call of configure() leaves
\* openssl.no_dso = False and openssl.shared = True, a second call changes
\* nothing, and every other option of openssl and every option of gtest
\* keeps the value (or the absence of a value) it had before the call.
C10_IdempotentOverwrite ==
    [][ ConfigureStep =>
          /\ HasOption(options', Openssl, "no_dso") /\ options'[Openssl]["no_dso"] = FALSE
          /\ HasOption(options', Openssl, "shared") /\ options'[Openssl]["shared"] = TRUE
          /\ (Configured => options' = options)
          /\ configure_body(options') = options'
          /\ \A p \in {Openssl, Gtest} : \A o \in OptionNames(p) :
                (p = Openssl /\ o \in {"no_dso", "shared"})
                \/ /\ HasOption(options', p, o) = HasOption(options, p, o)
                   /\ HasOption(options, p, o) => options'[p][o] = options[p][o]
          /\ DOMAIN options' = DOMAIN options \cup {Openssl}
          /\ \A p \in DOMAIN options' : DOMAIN options'[p] \subseteq OptionNames(p) ]_vars

C10_Witness ==
    /\ Calls("configure") = 2
    /\ HasOption(options, Openssl, "fPIC") /\ options[Openssl]["fPIC"] = TRUE
    /\ HasOption(options, Gtest, "shared") /\ options[Gtest]["shared"] = FALSE
    /\ <<Openssl, "shared", TRUE>> \in overrides

====
